---- MODULE Spec2Model ----
(***************************************************************************)
(* File tools of the MCP code sandbox: six tool handlers (list_files,      *)
(* read_file, write_file, upload_file, delete_file, get_file_metadata)     *)
(* over a registry session_id -> sandbox handle, and the E2B file adapter  *)
(* the handle exposes.                                                     *)
(*                                                                         *)
(* Strings that the code inspects character by character (paths, file      *)
(* names) are sequences of one-character strings; strings that are only    *)
(* interpolated (session ids, exception messages, file contents) are TLA+  *)
(* strings.  os.path is posixpath.                                         *)
(*                                                                         *)
(* The handlers are coroutines run by one event loop.  A coroutine keeps   *)
(* the loop until it awaits; the position of each invocation is pc[t].     *)
(***************************************************************************)
EXTENDS Integers, Sequences, FiniteSets, TLC

\* ------------------------------------------------------------- bounds
\* Longest generated path string (over PathChars) given to upload_file.
MaxLen == 1

\* ------------------------------------------------------------- inputs
Tasks == {"t1", "t2"}
SessionIds == {"s1", "s2"}
Handles == {"h1", "h2"}
Contents == {"hi", "x"}
PathChars == {"/", "a"}

Strs(n) == UNION {[1..k -> PathChars] : k \in 0..n}

logs == <<"l", "o", "g", "s">>
slashLogsSlash == <<"/", "l", "o", "g", "s", "/">>
aTxt == <<"a", ".", "t", "x", "t">>
slashLogsATxt == <<"/", "l", "o", "g", "s", "/", "a", ".", "t", "x", "t">>
slashA == <<"/", "a">>
root == <<"/">>

\* Arguments the callers use.
FilePathArgs == {root, slashA, slashLogsATxt, <<"a">>}
DestArgs == Strs(MaxLen) \cup {logs, slashLogsSlash}
NameArgs == Strs(MaxLen) \cup {aTxt, slashA}

\* Exceptions are their args tuple; str(e) of a one-argument exception is
\* the argument, of a no-argument exception the empty string.
ExcStr(e) == IF Len(e) = 0 THEN "" ELSE e[1]

\* Failures any backend call may end with, whatever the sandbox holds.
TransientFailures == {<<"timeout">>, <<>>}
NotFound == <<"not found">>
Denied == <<"permission denied">>

\* What a sandbox lets be written: the first stores files at two paths, the
\* second has a read-only file system.  Every other write is rejected.
WritablePaths(h) == IF h = "h1" THEN {slashA, slashLogsATxt} ELSE {}

NoHandle == "none"
NoResult == [kind |-> "none"]
NoWrite == [path |-> <<>>, content |-> "", valid |-> FALSE]
NoArgs == [op |-> "none", session_id |-> "", path |-> <<>>,
           file_name |-> <<>>, content |-> ""]

VARIABLES
    active_sandboxes,  \* the registry: session_id -> sandbox handle
    ownerRegistry,  \* the registry as the external owner last left it
    fs,             \* per handle: path -> content, the sandbox's files
    lastWrite,      \* per handle: the last write_file that succeeded and
                    \* that nothing has touched since
    pc,             \* per task: idle, check, lookup, call, done
    args,           \* per task: the invocation's operation and arguments
    known,          \* per task: session_id was a registry key at invocation
    interpreter,    \* per task: the handler's local `interpreter`
    calls,          \* per task: backend calls the invocation has issued
    result          \* per task: how the invocation ended

vars == <<active_sandboxes, ownerRegistry, fs, lastWrite, pc, args, known,
          interpreter, calls, result>>

EmptyFs == [p \in {} |-> ""]

Init ==
    /\ active_sandboxes = [s \in {} |-> NoHandle]
    /\ ownerRegistry = active_sandboxes
    /\ fs = [h \in Handles |-> EmptyFs]
    /\ lastWrite = [h \in Handles |-> NoWrite]
    /\ pc = [t \in Tasks |-> "idle"]
    /\ args = [t \in Tasks |-> NoArgs]
    /\ known = [t \in Tasks |-> FALSE]
    /\ interpreter = [t \in Tasks |-> NoHandle]
    /\ calls = [t \in Tasks |-> <<>>]
    /\ result = [t \in Tasks |-> NoResult]

\* ------------------------------------------------------- path logic
StartsWith(s, c) == Len(s) > 0 /\ s[1] = c
EndsWith(s, c) == Len(s) > 0 /\ s[Len(s)] = c

\* A join that always puts a separator between its parts.
PathJoinAlwaysSep(a, b) == a \o <<"/">> \o b

\* posixpath.join(a, b): an absolute b replaces a; otherwise b is appended,
\* after a separator unless a is empty or already ends with one.
PathJoin(a, b) ==
    IF StartsWith(b, "/") THEN b
    ELSE IF a = <<>> \/ EndsWith(a, "/") THEN a \o b
    ELSE a \o <<"/">> \o b

\* upload_file's full_path: the join, with a leading "/" forced.
FullPath(destination_path, file_name) ==
    LET joined == PathJoin(destination_path, file_name)
    IN  IF ~StartsWith(joined, "/") THEN <<"/">> \o joined ELSE joined

\* ------------------------------------------------------- the sandbox
\* The SDK object behind a handle, as far as the adapter uses it.
SandboxFilesList(h, p) == DOMAIN fs[h]
SandboxFilesRead(h, p) == fs[h][p]
SandboxFilesWrite(h, p, c) ==
    [x \in DOMAIN fs[h] \cup {p} |-> IF x = p THEN c ELSE fs[h][x]]
SandboxFilesystemRemove(h, p) == [x \in DOMAIN fs[h] \ {p} |-> fs[h][x]]
\* filesystem.info: the native file info carries more than is_dir and size.
SandboxFilesystemInfo(h, p) ==
    IF p \in DOMAIN fs[h]
    THEN [name |-> p, is_dir |-> FALSE, size |-> Len(fs[h][p]),
          permissions |-> "rw-r--r--"]
    ELSE [name |-> p, is_dir |-> TRUE, size |-> 0,
          permissions |-> "rwxr-xr-x"]

Exists(h, p) == p \in DOMAIN fs[h]
ReadFailures(h, p) ==
    TransientFailures \cup (IF Exists(h, p) THEN {} ELSE {NotFound})
WriteFailures(h, p) ==
    TransientFailures \cup (IF p \in WritablePaths(h) THEN {} ELSE {Denied})
StatFailures(h, p) ==
    TransientFailures \cup (IF Exists(h, p) \/ p = root THEN {} ELSE {NotFound})

\* ------------------------------------------------------- the adapter
E2BList(h, p) == SandboxFilesList(h, p)

E2BRead(h, p) == SandboxFilesRead(h, p)

\* A write that creates the file and drops the content.
E2BWriteTruncating(h, p, c) == SandboxFilesWrite(h, p, "")
E2BWrite(h, p, c) == SandboxFilesWrite(h, p, c)
E2BDelete(h, p) == SandboxFilesystemRemove(h, p)

\* A stat that passes the native file info through.
E2BStatRaw(h, p) == SandboxFilesystemInfo(h, p)
E2BStat(h, p) ==
    LET file_info == SandboxFilesystemInfo(h, p)
    IN  [is_dir |-> file_info.is_dir, size |-> file_info.size]

\* ------------------------------------------------------- scheduling
\* The backend calls are plain synchronous calls: no handler awaits.
\* (BackendCallAwaited: the handlers as they would be with an awaited call.)
BackendCallAwaited == TRUE
BackendCallAwaits == FALSE

InFlight(t) == pc[t] \in {"check", "lookup", "call"}
Suspended(t) == pc[t] = "call" /\ BackendCallAwaits
HoldsLoop(t) == InFlight(t) /\ ~Suspended(t)
LoopFree == \A t \in Tasks : ~HoldsLoop(t)
CanStep(t) == \A u \in Tasks \ {t} : ~HoldsLoop(u)

\* ------------------------------------------------------- the owner
\* Population and eviction of active_sandboxes happen outside this layer,
\* on the same event loop: between handler runs, never inside one.
Populate(s, h) ==
    /\ LoopFree
    /\ s \notin DOMAIN active_sandboxes
    /\ \A x \in DOMAIN active_sandboxes : active_sandboxes[x] # h
    /\ active_sandboxes' = [x \in DOMAIN active_sandboxes \cup {s} |->
                        IF x = s THEN h ELSE active_sandboxes[x]]
    /\ ownerRegistry' = active_sandboxes'
    /\ fs' = [fs EXCEPT ![h] = EmptyFs]
    /\ lastWrite' = [lastWrite EXCEPT ![h] = NoWrite]
    /\ UNCHANGED <<pc, args, known, interpreter, calls, result>>

Evict(s) ==
    /\ LoopFree
    /\ s \in DOMAIN active_sandboxes
    /\ active_sandboxes' = [x \in DOMAIN active_sandboxes \ {s} |-> active_sandboxes[x]]
    /\ ownerRegistry' = active_sandboxes'
    /\ fs' = [fs EXCEPT ![active_sandboxes[s]] = EmptyFs]
    /\ lastWrite' = [lastWrite EXCEPT ![active_sandboxes[s]] = NoWrite]
    /\ UNCHANGED <<pc, args, known, interpreter, calls, result>>

\* ------------------------------------------------------- the handlers
Returned(v) == [kind |-> "returned", value |-> v]
Raised(e) == [kind |-> "raised", exc |-> e]

\* A backend call as the sandbox saw it.
Call(method, h, p, c, e, raised) ==
    [method |-> method, handle |-> h, path |-> p, content |-> c,
     exc |-> e, raised |-> raised]

SessionError(session_id) ==
    [error |-> "No sandbox found with session ID: " \o session_id
                \o ". Create a sandbox first."]

\* A handler without its except clause lets the exception out.
Reraise(prefix, e) == Raised(e)
\* except Exception as e: return {"error": f"<prefix>: {str(e)}"}
Caught(prefix, e) == Returned([error |-> prefix \o ": " \o ExcStr(e)])

ListError(e) == Caught("Error listing files", e)
ReadError(e) == Caught("Error reading file", e)
WriteError(e) == Caught("Error writing file", e)
\* upload_file with write_file's except clause copied unchanged.
UploadErrorAsWrite(e) == Caught("Error writing file", e)
UploadError(e) == Caught("Error uploading file", e)
DeleteError(e) == Caught("Error deleting file", e)
StatError(e) == Caught("Error getting file metadata", e)

ListSuccess(path, files) == [path |-> path, files |-> files]
ReadSuccess(file_path, content) == [path |-> file_path, content |-> content]
WriteSuccess(file_path) ==
    [path |-> file_path, message |-> "File written successfully"]
UploadSuccess(full_path) ==
    [path |-> full_path, message |-> "File uploaded successfully"]
\* delete_file with write_file's success message copied unchanged.
DeleteSuccessAsWrite(file_path) ==
    [path |-> file_path, message |-> "File written successfully"]
DeleteSuccess(file_path) ==
    [path |-> file_path, message |-> "File deleted successfully"]
StatSuccess(file_path, metadata) ==
    [path |-> file_path, metadata |-> metadata]

\* What the callers send.
Invocations ==
    {[op |-> o, session_id |-> s, path |-> p, file_name |-> <<>>,
      content |-> ""] :
        o \in {"list_files", "read_file", "delete_file", "get_file_metadata"},
        s \in SessionIds, p \in FilePathArgs}
    \cup
    {[op |-> "write_file", session_id |-> s, path |-> p, file_name |-> <<>>,
      content |-> c] : s \in SessionIds, p \in FilePathArgs, c \in Contents}
    \cup
    {[op |-> "upload_file", session_id |-> s, path |-> d, file_name |-> n,
      content |-> c] :
        s \in SessionIds, d \in DestArgs, n \in NameArgs, c \in Contents}

\* The framework starts a handler coroutine when the loop is free; the
\* record a handler returned is handed to its caller before the next starts.
Invoke(t) ==
    /\ pc[t] = "idle"
    /\ LoopFree
    /\ \A u \in Tasks : pc[u] # "done"
    /\ \E a \in Invocations :
        /\ args' = [args EXCEPT ![t] = a]
        /\ known' = [known EXCEPT ![t] = a.session_id \in DOMAIN active_sandboxes]
    /\ pc' = [pc EXCEPT ![t] = "check"]
    /\ interpreter' = [interpreter EXCEPT ![t] = NoHandle]
    /\ calls' = [calls EXCEPT ![t] = <<>>]
    /\ result' = [result EXCEPT ![t] = NoResult]
    /\ UNCHANGED <<active_sandboxes, ownerRegistry, fs, lastWrite>>

\* A handler that goes to the lookup without the membership test.
CheckSessionSkipped(t) ==
    /\ pc[t] = "check"
    /\ CanStep(t)
    /\ pc' = [pc EXCEPT ![t] = "lookup"]
    /\ UNCHANGED <<active_sandboxes, ownerRegistry, fs, lastWrite, args, known,
                   interpreter, calls, result>>

\* if session_id not in self.active_sandboxes: return {"error": ...}
CheckSession(t) ==
    /\ pc[t] = "check"
    /\ CanStep(t)
    /\ IF args[t].session_id \notin DOMAIN active_sandboxes
       THEN /\ result' = [result EXCEPT
                            ![t] = Returned(SessionError(args[t].session_id))]
            /\ pc' = [pc EXCEPT ![t] = "done"]
       ELSE /\ pc' = [pc EXCEPT ![t] = "lookup"]
            /\ UNCHANGED result
    /\ UNCHANGED <<active_sandboxes, ownerRegistry, fs, lastWrite, args, known,
                   interpreter, calls>>

\* A lookup by self.active_sandboxes.pop(session_id).
LookupPop(t) ==
    /\ pc[t] = "lookup"
    /\ CanStep(t)
    /\ args[t].session_id \in DOMAIN active_sandboxes
    /\ interpreter' = [interpreter EXCEPT ![t] = active_sandboxes[args[t].session_id]]
    /\ active_sandboxes' = [x \in DOMAIN active_sandboxes \ {args[t].session_id} |->
                        active_sandboxes[x]]
    /\ pc' = [pc EXCEPT ![t] = "call"]
    /\ UNCHANGED <<ownerRegistry, fs, lastWrite, args, known, calls, result>>

\* interpreter = self.active_sandboxes[session_id], outside the try block:
\* a missing key raises KeyError out of the handler.
Lookup(t) ==
    /\ pc[t] = "lookup"
    /\ CanStep(t)
    /\ IF args[t].session_id \in DOMAIN active_sandboxes
       THEN /\ interpreter' = [interpreter EXCEPT ![t] = active_sandboxes[args[t].session_id]]
            /\ pc' = [pc EXCEPT ![t] = "call"]
            /\ UNCHANGED result
       ELSE /\ result' = [result EXCEPT
                            ![t] = Raised(<<args[t].session_id>>)]
            /\ pc' = [pc EXCEPT ![t] = "done"]
            /\ UNCHANGED interpreter
    /\ UNCHANGED <<active_sandboxes, ownerRegistry, fs, lastWrite, args, known, calls>>

\* A write, delete or failure at path p ends the standing of the last
\* write_file to p.
Touch(h, p) ==
    IF lastWrite[h].valid /\ lastWrite[h].path = p THEN NoWrite ELSE lastWrite[h]

\* The end of every backend step: the call is recorded, the handler returns.
Finish(t, call, res) ==
    /\ calls' = [calls EXCEPT ![t] = Append(@, call)]
    /\ result' = [result EXCEPT ![t] = res]
    /\ pc' = [pc EXCEPT ![t] = "done"]
    /\ UNCHANGED <<active_sandboxes, ownerRegistry, args, known, interpreter>>

ListCall(t) ==
    /\ pc[t] = "call" /\ args[t].op = "list_files" /\ CanStep(t)
    /\ LET h == interpreter[t]
           path == args[t].path
       IN  /\ \/ Finish(t, Call("list", h, path, "", <<>>, FALSE),
                        Returned(ListSuccess(path, E2BList(h, path))))
              \/ \E e \in TransientFailures :
                     Finish(t, Call("list", h, path, "", e, TRUE), ListError(e))
           /\ UNCHANGED <<fs, lastWrite>>

ReadCall(t) ==
    /\ pc[t] = "call" /\ args[t].op = "read_file" /\ CanStep(t)
    /\ LET h == interpreter[t]
           file_path == args[t].path
       IN  /\ \/ /\ Exists(h, file_path)
                 /\ Finish(t, Call("read", h, file_path, "", <<>>, FALSE),
                           Returned(ReadSuccess(file_path,
                                                E2BRead(h, file_path))))
              \/ \E e \in ReadFailures(h, file_path) :
                     Finish(t, Call("read", h, file_path, "", e, TRUE),
                            ReadError(e))
           /\ UNCHANGED <<fs, lastWrite>>

WriteCall(t) ==
    /\ pc[t] = "call" /\ args[t].op = "write_file" /\ CanStep(t)
    /\ LET h == interpreter[t]
           file_path == args[t].path
           content == args[t].content
       IN  \/ /\ file_path \in WritablePaths(h)
              /\ fs' = [fs EXCEPT ![h] = E2BWrite(h, file_path, content)]
              /\ lastWrite' = [lastWrite EXCEPT ![h] =
                    [path |-> file_path, content |-> content, valid |-> TRUE]]
              /\ Finish(t, Call("write", h, file_path, content, <<>>, FALSE),
                        Returned(WriteSuccess(file_path)))
           \/ \E e \in WriteFailures(h, file_path) :
                  /\ lastWrite' = [lastWrite EXCEPT ![h] = Touch(h, file_path)]
                  /\ Finish(t, Call("write", h, file_path, content, e, TRUE),
                            WriteError(e))
                  /\ UNCHANGED fs

UploadCall(t) ==
    /\ pc[t] = "call" /\ args[t].op = "upload_file" /\ CanStep(t)
    /\ LET h == interpreter[t]
           full_path == FullPath(args[t].path, args[t].file_name)
           file_content == args[t].content
       IN  /\ lastWrite' = [lastWrite EXCEPT ![h] = Touch(h, full_path)]
           /\ \/ /\ full_path \in WritablePaths(h)
                 /\ fs' = [fs EXCEPT ![h] = E2BWrite(h, full_path, file_content)]
                 /\ Finish(t, Call("write", h, full_path, file_content,
                                   <<>>, FALSE),
                           Returned(UploadSuccess(full_path)))
              \/ \E e \in WriteFailures(h, full_path) :
                     /\ Finish(t, Call("write", h, full_path, file_content,
                                       e, TRUE),
                               UploadError(e))
                     /\ UNCHANGED fs

DeleteCall(t) ==
    /\ pc[t] = "call" /\ args[t].op = "delete_file" /\ CanStep(t)
    /\ LET h == interpreter[t]
           file_path == args[t].path
       IN  /\ lastWrite' = [lastWrite EXCEPT ![h] = Touch(h, file_path)]
           /\ \/ /\ Exists(h, file_path)
                 /\ fs' = [fs EXCEPT ![h] = E2BDelete(h, file_path)]
                 /\ Finish(t, Call("delete", h, file_path, "", <<>>, FALSE),
                           Returned(DeleteSuccess(file_path)))
              \/ \E e \in ReadFailures(h, file_path) :
                     /\ Finish(t, Call("delete", h, file_path, "", e, TRUE),
                               DeleteError(e))
                     /\ UNCHANGED fs

StatCall(t) ==
    /\ pc[t] = "call" /\ args[t].op = "get_file_metadata" /\ CanStep(t)
    /\ LET h == interpreter[t]
           file_path == args[t].path
       IN  /\ \/ /\ Exists(h, file_path) \/ file_path = root
                 /\ Finish(t, Call("stat", h, file_path, "", <<>>, FALSE),
                           Returned(StatSuccess(file_path,
                                                E2BStat(h, file_path))))
              \/ \E e \in StatFailures(h, file_path) :
                     Finish(t, Call("stat", h, file_path, "", e, TRUE),
                            StatError(e))
           /\ UNCHANGED <<fs, lastWrite>>

\* The caller has the returned record; the task can serve the next call.
Return(t) ==
    /\ pc[t] = "done"
    /\ pc' = [pc EXCEPT ![t] = "idle"]
    /\ args' = [args EXCEPT ![t] = NoArgs]
    /\ known' = [known EXCEPT ![t] = FALSE]
    /\ interpreter' = [interpreter EXCEPT ![t] = NoHandle]
    /\ calls' = [calls EXCEPT ![t] = <<>>]
    /\ result' = [result EXCEPT ![t] = NoResult]
    /\ UNCHANGED <<active_sandboxes, ownerRegistry, fs, lastWrite>>

Next ==
    \/ \E s \in SessionIds, h \in Handles : Populate(s, h)
    \/ \E s \in SessionIds : Evict(s)
    \/ \E t \in Tasks : Invoke(t)
    \/ \E t \in Tasks : CheckSession(t)
    \/ \E t \in Tasks : Lookup(t)
    \/ \E t \in Tasks : ListCall(t)
    \/ \E t \in Tasks : ReadCall(t)
    \/ \E t \in Tasks : WriteCall(t)
    \/ \E t \in Tasks : UploadCall(t)
    \/ \E t \in Tasks : DeleteCall(t)
    \/ \E t \in Tasks : StatCall(t)
    \/ \E t \in Tasks : Return(t)

Spec == Init /\ [][Next]_vars

\* ------------------------------------------------------- properties
Done(t) == pc[t] = "done"
Succeeded(t) ==
    Done(t) /\ result[t].kind = "returned" /\ "path" \in DOMAIN result[t].value
BackendRaised(t) == Done(t) /\ Len(calls[t]) = 1 /\ calls[t][1].raised

\* C1: an invocation whose session_id was not a registry key returns exactly
\* the "No sandbox found" record for that id and issues no backend call, at
\* any point of its run.
C1_UnknownSession ==
    \A t \in Tasks :
        (pc[t] # "idle" /\ ~known[t]) =>
            /\ calls[t] = <<>>
            /\ pc[t] \in {"check", "done"}
            /\ Done(t) =>
                 result[t] = [kind |-> "returned", value |->
                    [error |-> "No sandbox found with session ID: "
                               \o args[t].session_id
                               \o ". Create a sandbox first."]]

C1_Witness ==
    \E t \in Tasks :
        /\ Done(t) /\ ~known[t] /\ args[t].op = "get_file_metadata"
        /\ args[t].session_id = "s2" /\ "s1" \in DOMAIN active_sandboxes

C3_Prefix(op) ==
    CASE op = "write_file" -> "Error writing file"
      [] op = "list_files" -> "Error listing files"
      [] op = "read_file" -> "Error reading file"
      [] op = "upload_file" -> "Error uploading file"
      [] op = "delete_file" -> "Error deleting file"
      [] op = "get_file_metadata" -> "Error getting file metadata"

C3_BackendErrorEnvelope ==
    \A t \in Tasks :
        BackendRaised(t) =>
            result[t] = [kind |-> "returned", value |->
                [error |-> C3_Prefix(args[t].op) \o ": "
                           \o ExcStr(calls[t][1].exc)]]

C3_Witness ==
    \E t \in Tasks :
        /\ BackendRaised(t) /\ args[t].op = "write_file"
        /\ calls[t][1].exc = <<"timeout">>
        /\ result[t].value = [error |-> "Error writing file: timeout"]

\* C4: the registry is always what the external owner made it: no handler
\* step adds, removes or rebinds a key.
C4_RegistryUntouched == active_sandboxes = ownerRegistry

C4_Witness ==
    \E t \in Tasks :
        /\ BackendRaised(t) /\ args[t].op = "delete_file"
        /\ DOMAIN active_sandboxes = SessionIds

\* C5: upload_file on a known session issues exactly one backend write, at
\* the join of destination_path and file_name with a leading "/" forced, and
\* a success record carries that path; "logs" and "/logs/" with "a.txt"
\* both write "/logs/a.txt".
C5_UploadPath ==
    \A t \in Tasks :
        (Done(t) /\ known[t] /\ args[t].op = "upload_file") =>
            LET joined == PathJoin(args[t].path, args[t].file_name)
                written == calls[t][1].path
            IN  /\ Len(calls[t]) = 1
                /\ calls[t][1].method = "write"
                /\ written = (IF StartsWith(joined, "/") THEN joined
                              ELSE <<"/">> \o joined)
                /\ Succeeded(t) => result[t].value.path = written
                /\ (args[t].file_name = aTxt
                    /\ args[t].path \in {logs, slashLogsSlash}) =>
                        written = slashLogsATxt

C5_Witness ==
    \E t \in Tasks :
        /\ Succeeded(t) /\ args[t].op = "upload_file"
        /\ args[t].path = slashLogsSlash /\ args[t].file_name = aTxt
        /\ result[t].value.path = slashLogsATxt

\* C6: a read_file whose backend read did not fail, of the path the last
\* successful write_file on the same sandbox wrote (nothing having written,
\* deleted or failed at that path since), returns that path and the content
\* written.
C6_RoundTrip ==
    \A t \in Tasks :
        (/\ Done(t) /\ args[t].op = "read_file"
         /\ Len(calls[t]) = 1 /\ ~calls[t][1].raised
         /\ lastWrite[interpreter[t]].valid
         /\ lastWrite[interpreter[t]].path = args[t].path) =>
            result[t] = [kind |-> "returned", value |->
                [path |-> args[t].path,
                 content |-> lastWrite[interpreter[t]].content]]

C6_Witness ==
    \E t \in Tasks :
        /\ Succeeded(t) /\ args[t].op = "read_file"
        /\ lastWrite[interpreter[t]] =
             [path |-> slashA, content |-> "hi", valid |-> TRUE]
        /\ args[t].path = slashA
        /\ result[t].value.content = "hi"

\* C7: a get_file_metadata that succeeds returns a metadata object with
\* exactly the keys is_dir and size.
C7_MetadataKeys ==
    \A t \in Tasks :
        (Succeeded(t) /\ args[t].op = "get_file_metadata") =>
            /\ "metadata" \in DOMAIN result[t].value
            /\ DOMAIN result[t].value.metadata = {"is_dir", "size"}

C7_Witness ==
    \E t \in Tasks :
        /\ Succeeded(t) /\ args[t].op = "get_file_metadata"
        /\ result[t].value.metadata = [is_dir |-> FALSE, size |-> 2]

\* C8 as stated: every success record's path is the path argument of the
\* invocation (for upload_file: destination_path, or file_name).
C8_PathEchoesArgument ==
    \A t \in Tasks :
        Succeeded(t) =>
            \/ result[t].value.path = args[t].path
            \/ /\ args[t].op = "upload_file"
               /\ result[t].value.path = args[t].file_name

\* C8 amended: the success record of list_files, read_file, write_file,
\* delete_file and get_file_metadata carries the path argument and the
\* payload or fixed message; that of upload_file carries the path it wrote
\* (the join with "/" forced) and its fixed message.
C8_SuccessRecord ==
    \A t \in Tasks :
        Succeeded(t) =>
            LET v == result[t].value
                op == args[t].op
            IN  /\ op # "upload_file" => v.path = args[t].path
                /\ op = "list_files" => DOMAIN v = {"path", "files"}
                /\ op = "read_file" => DOMAIN v = {"path", "content"}
                /\ op = "get_file_metadata" => DOMAIN v = {"path", "metadata"}
                /\ op = "write_file" =>
                     v = [path |-> args[t].path,
                          message |-> "File written successfully"]
                /\ op = "delete_file" =>
                     v = [path |-> args[t].path,
                          message |-> "File deleted successfully"]
                /\ op = "upload_file" =>
                     /\ v = [path |-> calls[t][1].path,
                             message |-> "File uploaded successfully"]
                     /\ v.path = FullPath(args[t].path, args[t].file_name)

C8_Witness ==
    \E t \in Tasks :
        /\ Succeeded(t) /\ args[t].op = "upload_file"
        /\ args[t].path = logs /\ args[t].file_name = aTxt
        /\ result[t].value.path = slashLogsATxt

\* C9 as stated: an invocation at its backend call is suspended there, so
\* another invocation can start while it waits.
C9_SuspendsAtBackendCall ==
    \A t \in Tasks :
        pc[t] = "call" => \E u \in Tasks \ {t} : ENABLED Invoke(u)

\* C9 amended: a handler never suspends; an invocation that has started
\* runs to its return before another can start, so at most one invocation
\* is in flight and none can start while one is at its backend call.
C9_RunToCompletion ==
    /\ Cardinality({t \in Tasks : InFlight(t)}) <= 1
    /\ \A t \in Tasks :
          InFlight(t) => \A u \in Tasks : ~ENABLED Invoke(u)

C9_Witness ==
    /\ pc["t1"] = "call" /\ pc["t2"] = "idle"
    /\ args["t1"].op = "write_file"

\* C10: the path upload_file writes lies inside the destination directory
\* (destination_path with a leading "/" forced and one separator before the
\* name): it begins with that directory, whatever file_name is.
C10_Directory(destination_path) ==
    LET abs == IF StartsWith(destination_path, "/") THEN destination_path
               ELSE <<"/">> \o destination_path
    IN  IF EndsWith(abs, "/") THEN abs ELSE abs \o <<"/">>

C10_UploadInsideDestination ==
    \A t \in Tasks :
        (Succeeded(t) /\ args[t].op = "upload_file") =>
            LET dir == C10_Directory(args[t].path)
                written == calls[t][1].path
            IN  /\ Len(written) >= Len(dir)
                /\ SubSeq(written, 1, Len(dir)) = dir

====
